---- MODULE Spec2Model ----
(***************************************************************************)
(* rolling-median: the two-heap rolling median engine of src/src/lib.rs    *)
(* and the float helpers of src/src/float_utils.rs.                        *)
(*                                                                         *)
(* Floating-point values are modelled as a small binary floating-point     *)
(* format with the structure of IEEE 754: a sign, a class (finite,         *)
(* infinite, NaN) and a magnitude.  A finite magnitude is an integer       *)
(* number of units (the smallest subnormal); the format has MantBits       *)
(* significant bits and MaxExp+1 binades of normal numbers, so that        *)
(* sums are rounded to nearest-even, overflow to infinity, and halving     *)
(* an odd subnormal rounds, as the hardware does.                          *)
(***************************************************************************)
EXTENDS Integers, Sequences, FiniteSets, TLC

\* ------------------------------------------------------------------------
\* Bounds of the model
\* ------------------------------------------------------------------------

\* significant bits of the float format (f32: 24, f64: 53)
MantBits == 11

\* largest binade of the float format, counted from the subnormal binade
MaxExp == 2

\* largest number of successful pushes in one run
MaxPush == 4

\* largest number of successful pushes in one run of the documented example
MaxDocPush == 5

\* largest length of an array that is compared and sorted
MaxSortLen == 3

\* largest number of successful pushes before an engine is converted
MaxIntoPush == 3

\* significant bits of the narrower format, f32, when T is f64
F32MantBits == 8

\* smallest binade of f32: its subnormals are 2^F32MinExp units apart
F32MinExp == 1

\* largest binade of f32, counted from its subnormal binade
F32MaxExp == 2

\* ------------------------------------------------------------------------
\* The float format
\* ------------------------------------------------------------------------

RECURSIVE Pow2(_)
Pow2(e) == IF e = 0 THEN 1 ELSE 2 * Pow2(e - 1)

\* magnitude of T::MAX, in units
MaxMag == (Pow2(MantBits) - 1) * Pow2(MaxExp)

Fin(s, n) == [cls |-> "fin", sgn |-> s, mag |-> n]
Inf(s) == [cls |-> "inf", sgn |-> s, mag |-> 0]

NAN == [cls |-> "nan", sgn |-> 1, mag |-> 0]
INFINITY == Inf(1)
NEG_INFINITY == Inf(-1)
MAX == Fin(1, MaxMag)
MIN == Fin(-1, MaxMag)
PosZero == Fin(1, 0)
NegZero == Fin(-1, 0)

\* distance between neighbouring magnitudes at magnitude n
RECURSIVE Ulp(_)
Ulp(n) == IF n < Pow2(MantBits) THEN 1 ELSE 2 * Ulp(n \div 2)

\* an exact non-negative magnitude rounded to nearest, ties to even
RoundMag(n) ==
    LET q == Ulp(n)
        lower == (n \div q) * q
        rem == n - lower
    IN  IF 2 * rem < q THEN lower
        ELSE IF 2 * rem > q THEN lower + q
        ELSE IF (lower \div q) % 2 = 0 THEN lower
        ELSE lower + q

\* an exact non-zero integer rounded into the format (overflow gives infinity)
RoundInt(x) ==
    LET s == IF x < 0 THEN -1 ELSE 1
        r == RoundMag(s * x)
    IN  IF r > MaxMag THEN Inf(s) ELSE Fin(s, r)

\* the signed integer a finite value stands for
IntVal(a) == a.sgn * a.mag

is_nan(a) == a.cls = "nan"
is_infinite(a) == a.cls = "inf"
is_finite(a) == a.cls = "fin"

\* 1.0 for positive values, +0.0 and +inf; -1.0 for negative ones; NaN for NaN
signum(a) == IF is_nan(a) THEN NAN ELSE Fin(a.sgn, 1)

abs(a) == IF is_nan(a) THEN NAN ELSE [a EXCEPT !.sgn = 1]

\* position of a non-NaN value on the extended real line (-0 and +0 coincide)
Rank(a) == IF is_infinite(a) THEN a.sgn * (MaxMag * 2 + 1) ELSE IntVal(a)

\* the primitive comparisons: every comparison with NaN is false
float_eq(a, b) == ~is_nan(a) /\ ~is_nan(b) /\ Rank(a) = Rank(b)
float_lt(a, b) == ~is_nan(a) /\ ~is_nan(b) /\ Rank(a) < Rank(b)
float_le(a, b) == ~is_nan(a) /\ ~is_nan(b) /\ Rank(a) <= Rank(b)
float_ge(a, b) == float_le(b, a)
float_ne(a, b) == ~float_eq(a, b)

\* a + b
float_add(a, b) ==
    IF is_nan(a) \/ is_nan(b) THEN NAN
    ELSE IF is_infinite(a) /\ is_infinite(b)
         THEN IF a.sgn = b.sgn THEN a ELSE NAN
    ELSE IF is_infinite(a) THEN a
    ELSE IF is_infinite(b) THEN b
    ELSE LET x == IntVal(a) + IntVal(b)
         IN  IF x = 0
             THEN IF a.sgn = -1 /\ b.sgn = -1 THEN NegZero ELSE PosZero
             ELSE RoundInt(x)

\* a / 2.0
float_half(a) ==
    IF ~is_finite(a) THEN a
    ELSE IF a.mag % 2 = 0 THEN Fin(a.sgn, a.mag \div 2)
    ELSE LET k == a.mag \div 2
         IN  Fin(a.sgn, IF k % 2 = 0 THEN k ELSE k + 1)

\* the midpoint computed as (a + b) / 2.0, whatever the operands' magnitude
prim_midpoint_naive(a, b) == <<float_add(a, b), float_half(float_add(a, b))>>

\* the inherent midpoint of the primitive float types: the values it computes,
\* in order, the last of which is its result
prim_midpoint_steps(a, b) ==
    LET HI == float_half(MAX)
    IN  IF float_le(abs(a), HI) /\ float_le(abs(b), HI)
        THEN <<float_add(a, b), float_half(float_add(a, b))>>
        ELSE <<float_half(a), float_half(b), float_add(float_half(a), float_half(b))>>

\* the inherent midpoint of the primitive float types
prim_midpoint(a, b) ==
    LET steps == prim_midpoint_steps(a, b)
    IN  steps[Len(steps)]

\* ------------------------------------------------------------------------
\* Option and Result values
\* ------------------------------------------------------------------------

None == [tag |-> "None", val |-> PosZero]
Some(x) == [tag |-> "Some", val |-> x]
Ok == [tag |-> "Ok", val |-> PosZero]
Err == [tag |-> "Err", val |-> PosZero]
Usize(n) == [tag |-> "usize", val |-> n]
Bool(b) == [tag |-> "bool", val |-> b]
Unit == [tag |-> "unit", val |-> PosZero]
Panic == [tag |-> "panic", val |-> PosZero]

\* PartialEq of Option<T>, as assert_eq! compares two medians
option_eq(x, y) ==
    /\ x.tag = y.tag
    /\ x.tag = "Some" => float_eq(x.val, y.val)

\* ------------------------------------------------------------------------
\* The ordered wrapper of the heaps' elements and the binary heap
\* ------------------------------------------------------------------------

\* OrderedFloat: NaN is the largest value and equal to itself
OrderedFloat_ge(a, b) == is_nan(a) \/ float_ge(a, b)
OrderedFloat_le(a, b) == OrderedFloat_ge(b, a)

\* the order of a heap's elements: OrderedFloat<T> in heap_lo (rev = FALSE),
\* Reverse<OrderedFloat<T>> in heap_hi (rev = TRUE)
elem_le(a, b, rev) == IF rev THEN OrderedFloat_le(b, a) ELSE OrderedFloat_le(a, b)

\* BinaryHeap::sift_up: the element e, whose hole is at pos, moves towards
\* the root while it is greater than its parent
RECURSIVE sift_up(_, _, _, _)
sift_up(data, e, pos, rev) ==
    IF pos > 1 /\ ~elem_le(e, data[pos \div 2], rev)
    THEN sift_up([data EXCEPT ![pos] = data[pos \div 2]], e, pos \div 2, rev)
    ELSE [data EXCEPT ![pos] = e]

\* BinaryHeap::sift_down_to_bottom: the hole moves down to a leaf along the
\* greater children, then the element is sifted up from there
RECURSIVE sift_down_to_bottom(_, _, _, _)
sift_down_to_bottom(data, e, pos, rev) ==
    LET end == Len(data)
        child == 2 * pos
    IN  IF child + 1 <= end
        THEN LET c == IF elem_le(data[child], data[child + 1], rev)
                      THEN child + 1 ELSE child
             IN  sift_down_to_bottom([data EXCEPT ![pos] = data[c]], e, c, rev)
        ELSE IF child = end
        THEN sift_up([data EXCEPT ![pos] = data[child]], e, child, rev)
        ELSE sift_up(data, e, pos, rev)

\* BinaryHeap::push
heap_push(data, x, rev) == sift_up(Append(data, x), x, Len(data) + 1, rev)

\* BinaryHeap::pop: [item, data], the greatest element and the remaining heap
heap_pop(data, rev) ==
    LET last == data[Len(data)]
        rest == SubSeq(data, 1, Len(data) - 1)
    IN  IF rest = <<>> THEN [item |-> last, data |-> rest]
        ELSE [item |-> data[1], data |-> sift_down_to_bottom(rest, last, 1, rev)]

\* BinaryHeap::peek
heap_peek(data) == IF data = <<>> THEN None ELSE Some(data[1])

\* ------------------------------------------------------------------------
\* Midpoint and Median (src/src/lib.rs)
\* ------------------------------------------------------------------------

\* Midpoint::midpoint, its assertions: a NaN operand panics
midpoint_panics(a, b) == is_nan(a) \/ is_nan(b)

\* midpoint without the rule for infinities of opposite sign
midpoint_plain(a, b) == prim_midpoint(a, b)

\* Midpoint::midpoint for f32 and f64
midpoint(a, b) ==
    IF is_infinite(a) /\ is_infinite(b) /\ float_ne(signum(a), signum(b))
    THEN PosZero
    ELSE prim_midpoint(a, b)

\* Median::new
new == [heap_lo |-> <<>>, heap_hi |-> <<>>]

\* placement that inserts every value into heap_lo
place_always_lo(m, value) == [m EXCEPT !.heap_lo = heap_push(m.heap_lo, value, FALSE)]

\* placement that sends a value equal to lower's top to upper
place_strict(m, value) ==
    IF (heap_peek(m.heap_lo).tag = "None") \/ float_lt(value, heap_peek(m.heap_lo).val)
    THEN [m EXCEPT !.heap_lo = heap_push(m.heap_lo, value, FALSE)]
    ELSE [m EXCEPT !.heap_hi = heap_push(m.heap_hi, value, TRUE)]

\* Median::push, placement: the heap the value is inserted into
place(m, value) ==
    IF (heap_peek(m.heap_lo).tag = "None") \/ float_le(value, heap_peek(m.heap_lo).val)
    THEN [m EXCEPT !.heap_lo = heap_push(m.heap_lo, value, FALSE)]
    ELSE [m EXCEPT !.heap_hi = heap_push(m.heap_hi, value, TRUE)]

\* rebalancing that moves nothing
rebalance_none(m) == m

\* rebalancing without the move from heap_hi to heap_lo
rebalance_lo_to_hi_only(m) ==
    IF Len(m.heap_lo) > Len(m.heap_hi) + 1
    THEN LET p == heap_pop(m.heap_lo, FALSE)
         IN  [heap_lo |-> p.data, heap_hi |-> heap_push(m.heap_hi, p.item, TRUE)]
    ELSE m

\* rebalancing that moves lower's top as soon as lower is the larger heap
rebalance_eager(m) ==
    IF Len(m.heap_lo) > Len(m.heap_hi)
    THEN LET p == heap_pop(m.heap_lo, FALSE)
         IN  [heap_lo |-> p.data, heap_hi |-> heap_push(m.heap_hi, p.item, TRUE)]
    ELSE IF Len(m.heap_hi) > Len(m.heap_lo)
    THEN LET p == heap_pop(m.heap_hi, TRUE)
         IN  [heap_lo |-> heap_push(m.heap_lo, p.item, FALSE), heap_hi |-> p.data]
    ELSE m

\* rebalancing that takes the top off the larger heap and drops it
rebalance_drops(m) ==
    IF Len(m.heap_lo) > Len(m.heap_hi) + 1
    THEN [m EXCEPT !.heap_lo = heap_pop(m.heap_lo, FALSE).data]
    ELSE IF Len(m.heap_hi) > Len(m.heap_lo)
    THEN [m EXCEPT !.heap_hi = heap_pop(m.heap_hi, TRUE).data]
    ELSE m

\* Median::push, rebalancing: at most one top moves to the other heap
rebalance(m) ==
    IF Len(m.heap_lo) > Len(m.heap_hi) + 1
    THEN LET p == heap_pop(m.heap_lo, FALSE)
         IN  [heap_lo |-> p.data, heap_hi |-> heap_push(m.heap_hi, p.item, TRUE)]
    ELSE IF Len(m.heap_hi) > Len(m.heap_lo)
    THEN LET p == heap_pop(m.heap_hi, TRUE)
         IN  [heap_lo |-> heap_push(m.heap_lo, p.item, FALSE), heap_hi |-> p.data]
    ELSE m

\* push without the NaN check
push_unchecked(m, value) == [m |-> rebalance(place(m, value)), ret |-> Ok]

\* push that rejects every value that is not finite
push_finite_only(m, value) ==
    IF ~is_finite(value) THEN [m |-> m, ret |-> Err]
    ELSE [m |-> rebalance(place(m, value)), ret |-> Ok]

\* Median::push: [m, ret], the engine after the call and the call's result
push(m, value) ==
    IF is_nan(value) THEN [m |-> m, ret |-> Err]
    ELSE [m |-> rebalance(place(m, value)), ret |-> Ok]

\* get that never computes a midpoint
get_top_only(m) == heap_peek(m.heap_lo)

\* Median::get
get(m) ==
    IF m.heap_lo = <<>> THEN None
    ELSE IF Len(m.heap_lo) = Len(m.heap_hi)
    THEN LET lo_top == heap_peek(m.heap_lo)
             hi_top == heap_peek(m.heap_hi)
         IN  IF lo_top.tag = "None" \/ hi_top.tag = "None" THEN Panic
             ELSE IF midpoint_panics(lo_top.val, hi_top.val) THEN Panic
             ELSE Some(midpoint(lo_top.val, hi_top.val))
    ELSE heap_peek(m.heap_lo)

\* len that counts heap_lo only
len_lo_only(m) == Len(m.heap_lo)

\* Median::len
len(m) == Len(m.heap_lo) + Len(m.heap_hi)

\* is_empty with "or" for "and"
is_empty_either(m) == m.heap_lo = <<>> \/ m.heap_hi = <<>>

\* Median::is_empty
is_empty(m) == m.heap_lo = <<>> /\ m.heap_hi = <<>>

\* clear that forgets heap_hi
clear_lo_only(m) == [heap_lo |-> <<>>, heap_hi |-> m.heap_hi]

\* Median::clear
clear(m) == [heap_lo |-> <<>>, heap_hi |-> <<>>]

\* ------------------------------------------------------------------------
\* TryInto<f32> and TryInto<f64> for Median<T>, T being f64
\* ------------------------------------------------------------------------

\* magnitude of f32::MAX, in units of T
MaxMag32 == (Pow2(F32MantBits) - 1) * Pow2(F32MinExp + F32MaxExp)

\* distance between neighbouring f32 magnitudes at magnitude n
RECURSIVE Ulp32(_)
Ulp32(n) ==
    IF n < Pow2(F32MantBits) * Pow2(F32MinExp) THEN Pow2(F32MinExp)
    ELSE 2 * Ulp32(n \div 2)

\* a magnitude rounded to the nearest f32 magnitude, ties to even
RoundMag32(n) ==
    LET q == Ulp32(n)
        lower == (n \div q) * q
        rem == n - lower
    IN  IF 2 * rem < q THEN lower
        ELSE IF 2 * rem > q THEN lower + q
        ELSE IF (lower \div q) % 2 = 0 THEN lower
        ELSE lower + q

\* ToPrimitive::to_f32 of f64: Some(self as f32), the value rounded to f32,
\* to an infinity beyond f32::MAX
to_f32(a) ==
    IF ~is_finite(a) THEN Some(a)
    ELSE IF RoundMag32(a.mag) > MaxMag32 THEN Some(Inf(a.sgn))
    ELSE Some(Fin(a.sgn, RoundMag32(a.mag)))

\* ToPrimitive::to_f64 of f64: Some(self as f64), the value itself
to_f64(a) == Some(a)

\* Option::ok_or(())
ok_or(x) == IF x.tag = "Some" THEN [tag |-> "Ok", val |-> x.val] ELSE Err

\* a conversion that fails for values f32 does not hold
try_into_f32_checked(m) ==
    IF get(m).tag = "Some"
    THEN IF to_f32(get(m).val).val = get(m).val THEN ok_or(to_f32(get(m).val)) ELSE Err
    ELSE IF get(m).tag = "None" THEN Err
    ELSE Panic

\* TryInto<f32> for Median<T>::try_into
try_into_f32(m) ==
    IF get(m).tag = "Some" THEN ok_or(to_f32(get(m).val))
    ELSE IF get(m).tag = "None" THEN Err
    ELSE Panic

\* TryInto<f64> for Median<T>::try_into
try_into_f64(m) ==
    IF get(m).tag = "Some" THEN ok_or(to_f64(get(m).val))
    ELSE IF get(m).tag = "None" THEN Err
    ELSE Panic

\* ------------------------------------------------------------------------
\* The float helpers (src/src/float_utils.rs) and the reference median of
\* the tests
\* ------------------------------------------------------------------------

\* f32::total_cmp / f64::total_cmp, as a key: -inf < ... < -0 < +0 < ... < +inf < NaN
total_key(a) ==
    LET r == IF is_nan(a) THEN 2 * MaxMag + 2
             ELSE IF is_infinite(a) THEN 2 * MaxMag + 1 ELSE a.mag
    IN  IF a.sgn = 1 THEN r ELSE (0 - r) - 1

\* cmp by total_cmp alone, without the test for equal values
FloatType_cmp_total(a, b) ==
    IF total_key(a) = total_key(b) THEN "Equal"
    ELSE IF total_key(a) < total_key(b) THEN "Less" ELSE "Greater"

\* FloatType::cmp (operands are not NaN)
FloatType_cmp(a, b) ==
    IF float_eq(a, b) THEN "Equal"
    ELSE IF total_key(a) < total_key(b) THEN "Less" ELSE "Greater"

\* FloatType::eq
FloatType_eq(a, b) == FloatType_cmp(a, b) = "Equal"

\* FloatType::leq
FloatType_leq(a, b) == FloatType_cmp(a, b) \in {"Less", "Equal"}

\* FloatOrd: Ord::cmp, and PartialOrd::partial_cmp, which is Some(cmp)
FloatOrd_cmp(a, b) == FloatType_cmp(a, b)

\* FloatOrd: PartialEq::eq
FloatOrd_eq(a, b) == FloatType_eq(a, b)

\* FloatOrd: a < b and a > b, as PartialOrd derives them from partial_cmp
FloatOrd_lt(a, b) == FloatOrd_cmp(a, b) = "Less"
FloatOrd_gt(a, b) == FloatOrd_cmp(a, b) = "Greater"

\* FloatType::midpoint (operands are not NaN)
FloatType_midpoint(a, b) ==
    LET value == prim_midpoint(a, b)
    IN  IF is_nan(value) THEN PosZero ELSE value

\* the number of elements of the sorted sequence t that do not compare
\* greater than x
RECURSIVE sort_position(_, _)
sort_position(t, x) ==
    IF t = <<>> \/ FloatOrd_cmp(t[Len(t)], x) /= "Greater" THEN Len(t)
    ELSE sort_position(SubSeq(t, 1, Len(t) - 1), x)

\* Vec<FloatOrd<T>>::sort, a stable sort by FloatOrd's Ord
RECURSIVE sort(_)
sort(s) ==
    IF s = <<>> THEN <<>>
    ELSE LET t == sort(SubSeq(s, 1, Len(s) - 1))
             x == s[Len(s)]
             k == sort_position(t, x)
         IN  SubSeq(t, 1, k) \o <<x>> \o SubSeq(t, k + 1, Len(t))

\* compute_median of tests/median_test.rs
compute_median(vals) ==
    IF vals = <<>> THEN None
    ELSE LET sorted == sort(vals)
             mid == Len(vals) \div 2
             rem == Len(vals) % 2
         IN  IF rem = 0
             THEN Some(FloatType_midpoint(sorted[mid], sorted[mid + 1]))
             ELSE Some(sorted[mid + 1])

\* ------------------------------------------------------------------------
\* The state machine: one engine and its caller
\* ------------------------------------------------------------------------

VARIABLES
    heap_lo,    \* Median::heap_lo, the max-heap of the lower half
    heap_hi,    \* Median::heap_hi, the min-heap of the upper half
    values,     \* the values pushed successfully since the last clear, in order
    pushed,     \* the number of successful pushes since construction
    op,         \* the last call: [name, arg]
    ret         \* what the last call returned

vars == <<heap_lo, heap_hi, values, pushed, op, ret>>

\* the engine, self
Self == [heap_lo |-> heap_lo, heap_hi |-> heap_hi]

\* the values a caller pushes: the special values of the tests and values
\* whose midpoints round
Inputs ==
    {NAN, INFINITY, NEG_INFINITY, MAX, MIN, PosZero, NegZero,
     Fin(1, 1), Fin(1, 2)}

\* VALUES of the documented example, in units of 0.005:
\* 3.27, 4.60, 5.95, 9.93, 7.79, 4.73
VALUES == <<Fin(1, 654), Fin(1, 920), Fin(1, 1190), Fin(1, 1986), Fin(1, 1558), Fin(1, 946)>>

Call(name, arg) == [name |-> name, arg |-> arg]

Init ==
    /\ heap_lo = new.heap_lo
    /\ heap_hi = new.heap_hi
    /\ values = <<>>
    /\ pushed = 0
    /\ op = Call("new", PosZero)
    /\ ret = Unit

\* median.push(value), while fewer than bound values were pushed
CallPush(value, bound) ==
    /\ is_nan(value) \/ pushed < bound
    /\ LET r == push(Self, value)
       IN  /\ heap_lo' = r.m.heap_lo
           /\ heap_hi' = r.m.heap_hi
           /\ values' = IF r.ret.tag = "Ok" THEN Append(values, value) ELSE values
           /\ pushed' = IF r.ret.tag = "Ok" THEN pushed + 1 ELSE pushed
           /\ ret' = r.ret
    /\ op' = Call("push", value)

\* a get() that takes lower's top out of the heap to read it
CallGet_pop ==
    /\ ret' = get(Self)
    /\ op' = Call("get", PosZero)
    /\ heap_lo' = IF heap_lo = <<>> THEN heap_lo ELSE heap_pop(heap_lo, FALSE).data
    /\ UNCHANGED <<heap_hi, values, pushed>>

\* median.get()
CallGet ==
    /\ ret' = get(Self)
    /\ op' = Call("get", PosZero)
    /\ UNCHANGED <<heap_lo, heap_hi, values, pushed>>

\* median.len()
CallLen ==
    /\ ret' = Usize(len(Self))
    /\ op' = Call("len", PosZero)
    /\ UNCHANGED <<heap_lo, heap_hi, values, pushed>>

\* median.is_empty()
CallIsEmpty ==
    /\ ret' = Bool(is_empty(Self))
    /\ op' = Call("is_empty", PosZero)
    /\ UNCHANGED <<heap_lo, heap_hi, values, pushed>>

\* median.clear()
CallClear ==
    /\ heap_lo' = clear(Self).heap_lo
    /\ heap_hi' = clear(Self).heap_hi
    /\ values' = <<>>
    /\ ret' = Unit
    /\ op' = Call("clear", PosZero)
    /\ UNCHANGED pushed

Next ==
    \/ \E value \in Inputs : CallPush(value, MaxPush)
    \/ CallGet
    \/ CallLen
    \/ CallIsEmpty
    \/ CallClear

Spec == Init /\ [][Next]_vars

\* the documented example: values of VALUES are pushed, in any order, and the
\* median is read
NextDoc ==
    \/ \E i \in DOMAIN VALUES : CallPush(VALUES[i], MaxDocPush)
    \/ CallGet

SpecDoc == Init /\ [][NextDoc]_vars

\* the engine has not been consumed by a conversion
Alive == op.name \notin {"try_into_f32", "try_into_f64"}

\* let x: Result<f32, ()> = median.try_into(), which consumes the engine
CallTryIntoF32 ==
    /\ Alive
    /\ ret' = try_into_f32(Self)
    /\ op' = Call("try_into_f32", PosZero)
    /\ UNCHANGED <<heap_lo, heap_hi, values, pushed>>

\* let x: Result<f64, ()> = median.try_into(), which consumes the engine
CallTryIntoF64 ==
    /\ Alive
    /\ ret' = try_into_f64(Self)
    /\ op' = Call("try_into_f64", PosZero)
    /\ UNCHANGED <<heap_lo, heap_hi, values, pushed>>

\* an engine is filled, perhaps cleared, and converted into a scalar
NextInto ==
    \/ Alive /\ \E value \in Inputs : CallPush(value, MaxIntoPush)
    \/ Alive /\ CallClear
    \/ CallTryIntoF32
    \/ CallTryIntoF64

SpecInto == Init /\ [][NextInto]_vars

\* the comparison tests: an array of values of the tests, non-NaN, is built,
\* its first two elements are compared, and a copy of it is sorted
CmpValues ==
    {NEG_INFINITY, MIN, Fin(-1, 1), NegZero, PosZero, Fin(1, 1),
     Fin(1, Pow2(MantBits - 1)), MAX, INFINITY}

InitCmp ==
    /\ heap_lo = new.heap_lo
    /\ heap_hi = new.heap_hi
    /\ values \in UNION {[1..n -> CmpValues] : n \in 0..MaxSortLen}
    /\ pushed = 0
    /\ op = Call("array", PosZero)
    /\ ret = Unit

\* FloatOrd(array[0]).cmp(&FloatOrd(array[1]))
CallCmp ==
    /\ Len(values) >= 2
    /\ ret' = [tag |-> "Ordering", val |-> FloatOrd_cmp(values[1], values[2])]
    /\ op' = Call("cmp", PosZero)
    /\ UNCHANGED <<heap_lo, heap_hi, values, pushed>>

\* array.sort(), on a copy of the array
CallSort ==
    /\ ret' = [tag |-> "array", val |-> sort(values)]
    /\ op' = Call("sort", PosZero)
    /\ UNCHANGED <<heap_lo, heap_hi, values, pushed>>

NextCmp ==
    \/ CallCmp
    \/ CallSort

SpecCmp == InitCmp /\ [][NextCmp]_vars

\* ------------------------------------------------------------------------
\* Properties
\* ------------------------------------------------------------------------

AllFinite(vals) == \A i \in DOMAIN vals : is_finite(vals[i])

\* C1: after each push of non-NaN finite values into a fresh engine, get()
\* equals the reference median of the values pushed so far (the sorted
\* values' middle element, or the midpoint of the two middle elements).
C1_GetIsReferenceMedian ==
    AllFinite(values) => option_eq(get(Self), compute_median(values))

\* C1 happens: four finite values were pushed, the last call was a push, and
\* the median is a midpoint that is none of the two tops
C1_Witness ==
    /\ Len(values) = 4
    /\ AllFinite(values)
    /\ op.name = "push" /\ ret.tag = "Ok"
    /\ get(Self).tag = "Some"
    /\ float_lt(heap_lo[1], get(Self).val)
    /\ float_lt(get(Self).val, heap_hi[1])

\* C2: push(NaN) returns Err(InvalidValue) and changes nothing: both heaps,
\* len() and get() are as before, and every later push does what it would
\* have done without the failed push.
C2_PushNanNoEffect ==
    [][(op'.name = "push" /\ is_nan(op'.arg)) =>
        /\ ret'.tag = "Err"
        /\ heap_lo' = heap_lo
        /\ heap_hi' = heap_hi
        /\ len(Self') = len(Self)
        /\ get(Self') = get(Self)
        /\ \A v \in Inputs : push(Self', v) = push(Self, v)]_vars

\* C2 happens: NaN was pushed into an engine holding values, and failed
C2_Witness ==
    /\ op.name = "push" /\ is_nan(op.arg)
    /\ ret.tag = "Err"
    /\ len(Self) >= 3

\* C3: size balance: in every reachable state len(lower) = len(upper) or
\* len(lower) = len(upper) + 1.
C3_SizeBalance ==
    \/ Len(heap_lo) = Len(heap_hi)
    \/ Len(heap_lo) = Len(heap_hi) + 1

StrictlyAscending(vals) ==
    \A i \in 1..(Len(vals) - 1) : float_lt(vals[i], vals[i + 1])

StrictlyDescending(vals) ==
    \A i \in 1..(Len(vals) - 1) : float_lt(vals[i + 1], vals[i])

\* C3 happens: four values were pushed in ascending order, so that every
\* push after the first went to upper and upper's top had to move
C3_Witness ==
    /\ Len(values) = 4
    /\ StrictlyAscending(values)
    /\ op.name = "push"
    /\ Len(heap_lo) = 2 /\ Len(heap_hi) = 2

\* C4: partition: in every reachable state every element of lower compares
\* <= every element of upper, and so does top(lower) with top(upper).
C4_Partition ==
    /\ \A i \in DOMAIN heap_lo : \A j \in DOMAIN heap_hi :
           OrderedFloat_le(heap_lo[i], heap_hi[j])
    /\ heap_hi /= <<>> =>
           /\ heap_lo /= <<>>
           /\ OrderedFloat_le(heap_peek(heap_lo).val, heap_peek(heap_hi).val)

\* C4 happens: four values were pushed in descending order, so that every
\* push went to lower and lower's top had to move to upper
C4_Witness ==
    /\ Len(values) = 4
    /\ StrictlyDescending(values)
    /\ op.name = "push"
    /\ Len(heap_hi) = 2
    /\ float_lt(heap_lo[1], heap_hi[1])

C6_ClearResets ==
    [][/\ op'.name = "clear" =>
              /\ Self' = new
              /\ get(Self').tag = "None"
              /\ len(Self') = 0
              /\ \A v \in Inputs : push(Self', v) = push(new, v)
       /\ (get(Self).tag = "None" /\ ~(op'.name = "push" /\ ret'.tag = "Ok")) =>
              get(Self').tag = "None"]_vars

\* C6 happens: NaN was pushed into an engine that was filled and cleared,
\* and get() is still None
C6_Witness ==
    /\ pushed >= 3
    /\ values = <<>>
    /\ op.name = "push" /\ ret.tag = "Err"
    /\ get(Self).tag = "None"

\* C7: len() is the sum of both heaps' sizes and the number of successful
\* pushes since construction or the last clear(); a successful push
\* increases it by exactly 1 and a failed push does not change it.
C7_LenCountsPushes ==
    /\ [](/\ len(Self) = Len(heap_lo) + Len(heap_hi)
          /\ len(Self) = Len(values))
    /\ [][op'.name = "push" =>
             IF ret'.tag = "Ok" THEN len(Self') = len(Self) + 1
             ELSE len(Self') = len(Self)]_vars

\* C7 happens: len() was called after a clear and two more pushes
C7_Witness ==
    /\ op.name = "len" /\ ret.val = 2
    /\ pushed = 4

\* C8: push of any non-NaN value returns Ok in every reachable state, push
\* fails for NaN only, and get, len, is_empty and clear never fail.
C8_OnlyNanFails ==
    /\ \A v \in Inputs : (push(Self, v).ret.tag = "Err") <=> is_nan(v)
    /\ \A v \in Inputs : push(Self, v).ret.tag \in {"Ok", "Err"}
    /\ get(Self).tag \in {"Some", "None"}
    /\ op.name = "push" => ret.tag = (IF is_nan(op.arg) THEN "Err" ELSE "Ok")
    /\ op.name = "get" => ret.tag \in {"Some", "None"}
    /\ op.name = "len" => ret.tag = "usize"
    /\ op.name = "is_empty" => ret.tag = "bool"
    /\ op.name = "clear" => ret.tag = "unit"

\* C8 happens: an infinity was pushed into an engine that holds MAX and MIN,
\* and the push returned Ok
C8_Witness ==
    /\ op.name = "push" /\ is_infinite(op.arg) /\ ret.tag = "Ok"
    /\ \E i \in DOMAIN values : values[i] = MAX
    /\ \E i \in DOMAIN values : values[i] = MIN

\* C9: after pushing two infinities into a fresh engine, get() is that
\* infinity when they have the same sign, and 0 when the signs differ, in
\* either order.
C9_InfinityPolicy ==
    (Len(values) = 2 /\ is_infinite(values[1]) /\ is_infinite(values[2])) =>
        /\ get(Self).tag = "Some"
        /\ IF values[1] = values[2] THEN get(Self).val = values[1]
           ELSE float_eq(get(Self).val, PosZero)

\* C9 happens: -inf and then +inf were pushed, and get() is 0
C9_Witness ==
    /\ values = <<NEG_INFINITY, INFINITY>>
    /\ op.name = "get" /\ ret.tag = "Some" /\ float_eq(ret.val, PosZero)

\* the first n values of the documented example
DocPrefix(n) == SubSeq(VALUES, 1, n)

\* the medians of C10 as stated, in units of 0.005: 3.27, 3.935, 4.60, 4.775, 5.95
DocMediansStated == <<Fin(1, 654), Fin(1, 787), Fin(1, 920), Fin(1, 955), Fin(1, 1190)>>

\* the medians of C10 as amended: 3.27, 3.935, 4.60, 5.275, 5.95
DocMediansAmended == <<Fin(1, 654), Fin(1, 787), Fin(1, 920), Fin(1, 1055), Fin(1, 1190)>>

\* C10 as stated: pushing 3.27, 4.60, 5.95, 9.93, 7.79 yields, after each
\* push, the medians 3.27, 3.935, 4.60, 4.775, 5.95.
C10_DocMediansStated ==
    \A n \in 1..5 :
        values = DocPrefix(n) => option_eq(get(Self), Some(DocMediansStated[n]))

\* C10 as amended: pushing 3.27, 4.60, 5.95, 9.93, 7.79 yields, after each
\* push, the medians 3.27, 3.935, 4.60, 5.275, 5.95.
C10_DocMedians ==
    \A n \in 1..5 :
        values = DocPrefix(n) => option_eq(get(Self), Some(DocMediansAmended[n]))

\* C10 happens: the five values were pushed in the documented order and the
\* median was read
C10_Witness ==
    /\ values = DocPrefix(5)
    /\ op.name = "get" /\ ret.tag = "Some"

\* C11: the midpoint of extreme finite operands does not overflow: after
\* pushing MAX, MAX get() is MAX, after MIN, MIN it is MIN, after MIN and
\* MAX (in either order) it is 0, and every value the midpoint computes on
\* the way is finite.
C11_MidpointNoOverflow ==
    (Len(values) = 2 /\ \A i \in 1..2 : values[i] \in {MAX, MIN}) =>
        /\ get(Self).tag = "Some"
        /\ IF values[1] = values[2] THEN get(Self).val = values[1]
           ELSE float_eq(get(Self).val, PosZero)
        /\ LET steps == prim_midpoint_steps(heap_lo[1], heap_hi[1])
           IN  \A k \in DOMAIN steps : is_finite(steps[k])

\* C11 happens: MAX was pushed twice, and get() returned MAX
C11_Witness ==
    /\ values = <<MAX, MAX>>
    /\ op.name = "get" /\ ret = Some(MAX)

\* the elements of a sequence
Elems(s) == {s[i] : i \in DOMAIN s}

\* C12: the wrapper's comparison is a total order on non-NaN values: exactly
\* one of a < b, a == b, a > b holds, a < b iff b > a, the order is
\* transitive and agrees with the numeric order, -inf is below every finite
\* value and +inf above, +0 and -0 compare equal; and sorting an array of
\* numerically distinct values yields the ascending arrangement of its
\* elements, whatever the order they were given in.
C12_TotalOrder ==
    /\ \A a \in Elems(values) : \A b \in Elems(values) :
           /\ Cardinality({p \in {"lt", "eq", "gt"} :
                  \/ p = "lt" /\ FloatOrd_lt(a, b)
                  \/ p = "eq" /\ FloatOrd_eq(a, b)
                  \/ p = "gt" /\ FloatOrd_gt(a, b)}) = 1
           /\ FloatOrd_lt(a, b) <=> FloatOrd_gt(b, a)
           /\ FloatOrd_eq(a, b) <=> FloatOrd_eq(b, a)
           /\ FloatOrd_lt(a, b) <=> float_lt(a, b)
           /\ FloatType_leq(a, b) <=> (FloatOrd_lt(a, b) \/ FloatOrd_eq(a, b))
           /\ (a = NEG_INFINITY /\ is_finite(b)) => FloatOrd_lt(a, b)
           /\ (a = INFINITY /\ is_finite(b)) => FloatOrd_gt(a, b)
           /\ (a.mag = 0 /\ b.mag = 0 /\ is_finite(a) /\ is_finite(b)) => FloatOrd_eq(a, b)
           /\ \A c \in Elems(values) :
                  (FloatType_leq(a, b) /\ FloatType_leq(b, c)) => FloatType_leq(a, c)
    /\ (op.name = "cmp") => (ret.val = "Equal" <=> float_eq(values[1], values[2]))
    /\ (/\ op.name = "sort"
        /\ \A i \in DOMAIN values : \A j \in DOMAIN values :
               i /= j => ~float_eq(values[i], values[j])) =>
           /\ Len(ret.val) = Len(values)
           /\ Elems(ret.val) = Elems(values)
           /\ StrictlyAscending(ret.val)

\* C12 happens: an array of three distinct values, holding an infinity and
\* given in descending order, was sorted
C12_Witness ==
    /\ op.name = "sort"
    /\ Len(values) = 3
    /\ StrictlyDescending(values)
    /\ values[1] = INFINITY
    /\ ret.val[3] = INFINITY

\* C13: no NaN is ever stored: in every reachable state neither heap holds
\* NaN, so the assertions of Midpoint::midpoint hold whenever get() calls
\* it, the peek().unwrap() calls of get() find an element, and get() does
\* not panic.
C13_NoNanStored ==
    /\ \A i \in DOMAIN heap_lo : ~is_nan(heap_lo[i])
    /\ \A i \in DOMAIN heap_hi : ~is_nan(heap_hi[i])
    /\ (heap_lo /= <<>> /\ Len(heap_lo) = Len(heap_hi)) =>
           /\ heap_peek(heap_lo).tag = "Some"
           /\ heap_peek(heap_hi).tag = "Some"
           /\ ~midpoint_panics(heap_peek(heap_lo).val, heap_peek(heap_hi).val)
    /\ get(Self).tag /= "panic"
    /\ op.name = "get" => ret.tag /= "panic"

\* C13 happens: a push of NaN was refused by an engine whose heaps have two
\* elements each, so that get() calls Midpoint::midpoint
C13_Witness ==
    /\ op.name = "push" /\ is_nan(op.arg) /\ ret.tag = "Err"
    /\ Len(heap_lo) = 2 /\ Len(heap_hi) = 2
    /\ get(Self).tag = "Some"

\* a greatest and a least element of a non-empty sequence, in the heaps' order
MaxOf(s) == CHOOSE x \in Elems(s) : \A y \in Elems(s) : OrderedFloat_le(y, x)
MinOf(s) == CHOOSE x \in Elems(s) : \A y \in Elems(s) : OrderedFloat_le(x, y)

\* C14: get() on a non-empty engine returns Midpoint(top(lower), top(upper))
\* when len(lower) = len(upper), and top(lower) otherwise, lower then having
\* exactly one more element; top(lower) is lower's greatest element and
\* top(upper) is upper's least.
C14_GetRule ==
    ~is_empty(Self) =>
        /\ get(Self).tag = "Some"
        /\ IF Len(heap_lo) = Len(heap_hi)
           THEN float_eq(get(Self).val, midpoint(MaxOf(heap_lo), MinOf(heap_hi)))
           ELSE /\ Len(heap_lo) = Len(heap_hi) + 1
                /\ float_eq(get(Self).val, MaxOf(heap_lo))
                /\ get(Self).val = heap_lo[1]
        /\ op.name = "get" => ret = get(Self)

\* C14 happens: get() was called with two elements in each heap and returned
\* a midpoint strictly between the two tops
C14_Witness ==
    /\ op.name = "get" /\ ret.tag = "Some"
    /\ Len(heap_lo) = 2 /\ Len(heap_hi) = 2
    /\ float_lt(MaxOf(heap_lo), ret.val)
    /\ float_lt(ret.val, MinOf(heap_hi))

\* the number of occurrences of x in the sequence s
Count(s, x) == Cardinality({i \in DOMAIN s : s[i] = x})

\* as multisets, after = before + added - removed (added, removed: sets of
\* at most one element each)
BagStep(before, after, added, removed) ==
    \A x \in Elems(before) \cup Elems(after) \cup added \cup removed :
        Count(after, x) + (IF x \in removed THEN 1 ELSE 0) =
            Count(before, x) + (IF x \in added THEN 1 ELSE 0)

\* one successful push of v took lo, hi to lo2, hi2 and transferred nothing
NoTransfer(lo, hi, lo2, hi2, v) ==
    \/ BagStep(lo, lo2, {v}, {}) /\ BagStep(hi, hi2, {}, {})
    \/ BagStep(lo, lo2, {}, {}) /\ BagStep(hi, hi2, {v}, {})

\* ... and transferred exactly the top of lower, a greatest element of lower
\* with v in it, to upper
TransferLowerTop(lo, hi, lo2, hi2, v) ==
    \E t \in Elems(lo) \cup {v} :
        /\ \A y \in Elems(lo) \cup {v} : OrderedFloat_le(y, t)
        /\ BagStep(lo, lo2, {v}, {t})
        /\ BagStep(hi, hi2, {t}, {})

\* ... and transferred exactly the top of upper, a least element of upper
\* with v in it, to lower
TransferUpperTop(lo, hi, lo2, hi2, v) ==
    \E t \in Elems(hi) \cup {v} :
        /\ \A y \in Elems(hi) \cup {v} : OrderedFloat_le(t, y)
        /\ BagStep(hi, hi2, {v}, {t})
        /\ BagStep(lo, lo2, {t}, {})

\* C15: a successful push transfers no element, or exactly the top of lower,
\* or exactly the top of upper, to the other heap; after it the size
\* invariant holds and no second move is due.
C15_OneMovePerPush ==
    [][(op'.name = "push" /\ ret'.tag = "Ok") =>
        /\ \/ NoTransfer(heap_lo, heap_hi, heap_lo', heap_hi', op'.arg)
           \/ TransferLowerTop(heap_lo, heap_hi, heap_lo', heap_hi', op'.arg)
           \/ TransferUpperTop(heap_lo, heap_hi, heap_lo', heap_hi', op'.arg)
        /\ Len(heap_lo') + Len(heap_hi') = Len(heap_lo) + Len(heap_hi) + 1
        /\ Len(heap_lo') - Len(heap_lo) \in {0, 1}
        /\ Len(heap_hi') - Len(heap_hi) \in {0, 1}
        /\ Len(heap_lo') = Len(heap_hi') \/ Len(heap_lo') = Len(heap_hi') + 1
        /\ rebalance(Self') = Self']_vars

\* C15 happens: the third of three ascending values was pushed, went to
\* upper, and upper's former top moved to lower
C15_Witness ==
    /\ Len(values) = 3
    /\ StrictlyAscending(values)
    /\ op.name = "push" /\ ret.tag = "Ok"
    /\ heap_lo[1] = values[2]
    /\ heap_hi = <<values[3]>>

\* C16: placement: a successfully pushed value is first inserted into lower
\* when lower is empty or the value is <= top(lower), ties included, and
\* into upper otherwise; the choice is the same whatever upper holds.
C16_PlacementRule ==
    \A v \in Inputs : ~is_nan(v) =>
        LET p == place(Self, v)
            q == place([heap_lo |-> heap_lo, heap_hi |-> <<>>], v)
        IN  /\ IF heap_lo = <<>> \/ OrderedFloat_le(v, MaxOf(heap_lo))
               THEN /\ BagStep(heap_lo, p.heap_lo, {v}, {})
                    /\ p.heap_hi = heap_hi
               ELSE /\ BagStep(heap_hi, p.heap_hi, {v}, {})
                    /\ p.heap_lo = heap_lo
            /\ Len(p.heap_lo) + Len(p.heap_hi) = Len(heap_lo) + Len(heap_hi) + 1
            /\ q.heap_lo = p.heap_lo

\* C16 happens: a value equal to lower's top was pushed while upper held a
\* greater value, and lower holds it twice
C16_Witness ==
    /\ Len(values) = 3
    /\ op.name = "push" /\ ret.tag = "Ok"
    /\ float_lt(values[1], values[2])
    /\ values[3] = values[1]
    /\ heap_lo = <<values[1], values[1]>>
    /\ heap_hi = <<values[2]>>

\* C17: get(), len() and is_empty() leave both heaps unchanged, so that any
\* number of them between two mutations does not alter the engine, and a
\* get() that follows a get() returns the same result.
C17_QueriesPure ==
    [][(op'.name \in {"get", "len", "is_empty"}) =>
        /\ heap_lo' = heap_lo
        /\ heap_hi' = heap_hi
        /\ op'.name = "get" => (ret' = get(Self) /\ get(Self') = ret')
        /\ op'.name = "len" => (ret'.val = len(Self) /\ len(Self') = ret'.val)
        /\ op'.name = "is_empty" => (ret'.val = is_empty(Self) /\ is_empty(Self') = ret'.val)]_vars

\* C17 happens: len() was called on an engine holding three values, which it
\* still holds
C17_Witness ==
    /\ op.name = "len" /\ ret.val = 3
    /\ Len(heap_lo) = 2 /\ Len(heap_hi) = 1

\* the finite value or infinity a is a value of f32
IsF32(a) == is_infinite(a) \/ (is_finite(a) /\ a.mag <= MaxMag32 /\ a.mag % Ulp32(a.mag) = 0)

\* C18 as stated: converting an engine into a scalar fails with Err(())
\* exactly when the engine is empty, and otherwise yields the value get()
\* would return.
C18_TryIntoStated ==
    (op.name \in {"try_into_f32", "try_into_f64"}) =>
        /\ ret.tag = "Err" <=> is_empty(Self)
        /\ ~is_empty(Self) => (ret.tag = "Ok" /\ float_eq(ret.val, get(Self).val))

\* C18 as amended: the conversion fails with Err(()) exactly when the engine
\* is empty; otherwise TryInto<f64> yields the value get() would return, and
\* TryInto<f32> yields that value converted to f32: the value itself when
\* f32 holds it, else a neighbouring f32 value, or the infinity of its sign
\* beyond f32::MAX.
C18_TryInto ==
    (op.name \in {"try_into_f32", "try_into_f64"}) =>
        /\ ret.tag = "Err" <=> is_empty(Self)
        /\ ~is_empty(Self) =>
              LET g == get(Self).val
              IN  /\ ret.tag = "Ok"
                  /\ op.name = "try_into_f64" => ret.val = g
                  /\ op.name = "try_into_f32" =>
                        /\ IsF32(ret.val)
                        /\ ret.val.sgn = g.sgn
                        /\ IsF32(g) => ret.val = g
                        /\ (is_finite(g) /\ is_finite(ret.val)) =>
                               /\ 2 * (ret.val.mag - g.mag) <= Ulp32(g.mag)
                               /\ 2 * (g.mag - ret.val.mag) <= Ulp32(g.mag)
                        /\ (is_finite(g) /\ is_infinite(ret.val)) => g.mag > MaxMag32

\* C18 happens: an engine whose median is MAX was converted into f32, which
\* gave an infinity
C18_Witness ==
    /\ op.name = "try_into_f32"
    /\ get(Self) = Some(MAX)
    /\ ret.tag = "Ok" /\ ret.val = INFINITY

\* C19: element conservation. In every reachable state the values held by
\* heap_lo and heap_hi together are, value for value and as often, the
\* values pushed with success since construction or the last clear();
\* nothing is dropped or duplicated, repeated equal values included.
C19_Conservation ==
    /\ Len(heap_lo) + Len(heap_hi) = Len(values)
    /\ \A x \in Elems(values) \cup Elems(heap_lo) \cup Elems(heap_hi) :
          Count(heap_lo, x) + Count(heap_hi, x) = Count(values, x)

\* C19 happens: a value was pushed four times, the first push after a
\* clear(), and rebalancing has moved copies of it into heap_hi
C19_Witness ==
    /\ op.name = "push"
    /\ Len(values) = 3 /\ pushed = 4
    /\ values[1] = values[2] /\ values[2] = values[3]
    /\ Len(heap_lo) = 2 /\ Len(heap_hi) = 1

\* the sequence t, ascending by total_key, with x put in its place
RECURSIVE CanonInsert(_, _)
CanonInsert(t, x) ==
    IF t = <<>> THEN <<x>>
    ELSE IF total_key(t[Len(t)]) <= total_key(x) THEN Append(t, x)
    ELSE Append(CanonInsert(SubSeq(t, 1, Len(t) - 1), x), t[Len(t)])

\* the one ascending arrangement of the values of s
RECURSIVE Canon(_)
Canon(s) ==
    IF s = <<>> THEN <<>>
    ELSE CanonInsert(Canon(SubSeq(s, 1, Len(s) - 1)), s[Len(s)])

\* the engine after the values of s were pushed, in order, into a fresh one
RECURSIVE RunPushes(_)
RunPushes(s) ==
    IF s = <<>> THEN new
    ELSE push(RunPushes(SubSeq(s, 1, Len(s) - 1)), s[Len(s)]).m

\* C20: order independence. Whatever the order in which the values were
\* pushed, get() and len() are those of the engine that received the same
\* values in ascending order; hence any two insertion orders of one
\* multiset of non-NaN values agree on get() and len(). Values are compared
\* as floats compare, under which the two zeros are equal.
C20_OrderIndependent ==
    /\ option_eq(get(Self), get(RunPushes(Canon(values))))
    /\ len(Self) = len(RunPushes(Canon(values)))

\* C20 happens: four values were pushed in an order that is not ascending,
\* the heaps are split otherwise than after the ascending order, and get()
\* was called
C20_Witness ==
    /\ op.name = "get"
    /\ Len(values) = 4
    /\ values /= Canon(values)
    /\ Self /= RunPushes(Canon(values))
    /\ Cardinality(Elems(values)) = 4

\* C21: the median is bounded by the data. Whenever get() returns a value
\* m, top(lower) <= m and, upper being non-empty, m <= top(upper); hence m
\* lies between the smallest and the largest value pushed since the last
\* clear(), also when the midpoint of infinities of opposite sign is 0.
\* The value a call of get() returned is the m of the state it was made in.
C21_MedianBounded ==
    /\ get(Self).tag \in {"None", "Some"}
    /\ get(Self).tag = "Some" =>
          LET m == get(Self).val
          IN  /\ ~is_nan(m)
              /\ float_le(heap_peek(heap_lo).val, m)
              /\ heap_hi /= <<>> => float_le(m, heap_peek(heap_hi).val)
              /\ float_le(MinOf(values), m)
              /\ float_le(m, MaxOf(values))
    /\ op.name = "get" => ret = get(Self)

\* C21 happens: the tops are the infinities of opposite sign, with finite
\* values below them in the heaps, and get() returned 0
C21_Witness ==
    /\ op.name = "get"
    /\ Len(heap_lo) = 2 /\ Len(heap_hi) = 2
    /\ heap_peek(heap_lo) = Some(NEG_INFINITY)
    /\ heap_peek(heap_hi) = Some(INFINITY)
    /\ ret = Some(PosZero)

\* C21 happens where rounding matters: the tops are neighbouring values, no
\* value lies between them, and get() returned one of the two
C21_Rounded ==
    /\ op.name = "get"
    /\ heap_peek(heap_lo) = Some(Fin(1, 1))
    /\ heap_peek(heap_hi) = Some(Fin(1, 2))
    /\ ret = Some(Fin(1, 2))

====
